---- MODULE Spec2Model ----
(***************************************************************************)
(* Sticker-sales forecasting stack: the BentoML Predictor Service          *)
(* (service.py) and its dashboard clients (gradio_ui/app.py,               *)
(* streamlit_ui/dashboard.py, streamlit_ui/dashboard_b.py).                *)
(*                                                                         *)
(* Floats are modelled as integers, a pandas table as a sequence of rows   *)
(* (records), a CSV file as a header flag plus its data rows.  Library     *)
(* calls (pandas, fastai, xgboost, requests) are modelled by their         *)
(* documented behaviour; where that behaviour depends on the installed     *)
(* version the model chooses nondeterministically among the versions.      *)
(***************************************************************************)
EXTENDS Integers, Sequences, FiniteSets, TLC

VARIABLES
    model,      \* self.model: the regressor loaded in __init__
    trainData,  \* storage: data/train.csv as read by preprocess
    request,    \* the service request handled last
    response,   \* the service's answer to it
    ui,         \* the outcome of the dashboard client operation run last
    workers,    \* the locals of the service's request handlers in flight
    tempFile,   \* 'temp_test.csv' in the Streamlit server's working directory
    sessions    \* the script runs of the Streamlit sessions, step by step

vars == <<model, trainData, request, response, ui, workers, tempFile, sessions>>

(***************************************************************************)
(* Bounds and value domains                                                *)
(***************************************************************************)
\* Largest number of data rows in a request or an upload.
MaxRows == 2

\* Largest number of data rows in a request handled concurrently with
\* another one.
ConcRows == 1

\* The request handlers that may run at the same time.
Workers == {1, 2}

\* Category values, each universe in sorted (lexicographic) order.
DateOrder == <<"2010-01-01", "2010-01-02", "2017-01-01">>
CountryOrder == <<"Canada", "Kenya">>
StoreOrder == <<"Discount Stickers", "Premium Sticker Mart">>
ProductOrder == <<"Holographic Goose", "Kaggle">>

Columns == {"date", "country", "store", "product"}

ColumnOrder(c) ==
    CASE c = "date" -> DateOrder
      [] c = "country" -> CountryOrder
      [] c = "store" -> StoreOrder
      [] c = "product" -> ProductOrder

Rec(d, c, s, p) == [date |-> d, country |-> c, store |-> s, product |-> p]

\* Valid SalesRecords a client may submit.
SalesRecords ==
    { Rec("2017-01-01", "Canada", "Discount Stickers", "Holographic Goose"),
      Rec("2010-01-02", "Kenya", "Discount Stickers", "Kaggle"),
      Rec("2010-01-01", "Canada", "Premium Sticker Mart", "Kaggle") }

SeqsUpTo(S, n) == UNION { [1..k -> S] : k \in 0..n }

\* Tables of at most MaxRows valid records.
Tables == SeqsUpTo(SalesRecords, MaxRows)

\* A CSV file: the header row and the data rows, or an empty file (no
\* header row, no data rows).
CsvFiles == {f \in [header : BOOLEAN, rows : Tables] : f.header \/ Len(f.rows) = 0}

(***************************************************************************)
(* Stored artifacts                                                        *)
(***************************************************************************)
\* The missing-target marker of a training row (dropped by dropna).
NaN == -1

TRow(d, c, s, p, n) ==
    [date |-> d, country |-> c, store |-> s, product |-> p, num_sold |-> n]

\* Training corpus in which every category value occurs in two rows or more.
TrainBalanced ==
    << TRow("2010-01-01", "Canada", "Discount Stickers", "Holographic Goose", 5),
       TRow("2010-01-01", "Kenya", "Premium Sticker Mart", "Kaggle", 3),
       TRow("2010-01-02", "Canada", "Premium Sticker Mart", "Holographic Goose", NaN),
       TRow("2010-01-01", "Kenya", "Discount Stickers", "Holographic Goose", 4),
       TRow("2010-01-02", "Canada", "Premium Sticker Mart", "Kaggle", 9),
       TRow("2010-01-02", "Kenya", "Discount Stickers", "Kaggle", 2),
       TRow("2010-01-02", "Canada", "Premium Sticker Mart", "Holographic Goose", 6) >>

\* Training corpus in which "Kenya" and "2010-01-02" occur in one row only.
TrainSparse ==
    << TRow("2010-01-01", "Canada", "Discount Stickers", "Holographic Goose", 5),
       TRow("2010-01-01", "Canada", "Premium Sticker Mart", "Kaggle", 3),
       TRow("2010-01-01", "Canada", "Discount Stickers", "Kaggle", NaN),
       TRow("2010-01-02", "Kenya", "Discount Stickers", "Kaggle", 4),
       TRow("2010-01-01", "Canada", "Premium Sticker Mart", "Holographic Goose", 9),
       TRow("2010-01-01", "Canada", "Discount Stickers", "Kaggle", 2) >>

TrainTables == {TrainBalanced, TrainSparse}

\* A stored regressor: a fixed function of one encoded row.
Models ==
    { [base |-> 10, w |-> [date |-> 1, country |-> 2, store |-> 3, product |-> 5]],
      [base |-> 0, w |-> [date |-> 7, country |-> 1, store |-> 1, product |-> 1]] }

(***************************************************************************)
(* Sequence helpers                                                        *)
(***************************************************************************)
RECURSIVE SelectIdx(_, _, _)
\* The elements of s at the positions (from i on) that are in keep, in order.
SelectIdx(s, keep, i) ==
    IF i > Len(s) THEN <<>>
    ELSE (IF i \in keep THEN <<s[i]>> ELSE <<>>) \o SelectIdx(s, keep, i + 1)

(***************************************************************************)
(* service.py: preprocess                                                  *)
(***************************************************************************)
\* train_df.dropna(subset=['num_sold'])
DropNa(train) ==
    SelectIdx(train, {i \in 1..Len(train) : train[i].num_sold # NaN}, 1)

\* RandomSplitter(valid_pct=0.2): the sizes of the validation part, int(0.2*n).
Cut(n) == (2 * n) \div 10

\* The validation index sets an unseeded RandomSplitter may draw for n rows.
Splits(n) == {v \in SUBSET (1..n) : Cardinality(v) = Cut(n)}

\* Categorify.setups: the classes of a column, from the training part only.
Classes(train, valid, col) ==
    {train[i][col] : i \in (1..Len(train)) \ valid}

\* Categorify.encodes: 1 + the position of v among the sorted classes, 0
\* (#na#) for a value that is not a class.
Code(classes, order, v) ==
    IF v \notin classes THEN 0
    ELSE Cardinality({j \in 1..Len(order) :
                        /\ order[j] \in classes
                        /\ \E k \in j..Len(order) : order[k] = v})

EncodeRow(train, valid, row) ==
    [col \in Columns |-> Code(Classes(train, valid, col), ColumnOrder(col), row[col])]

\* Mutant of TestDlXs: rows whose date is not a class are dropped.
TestDlXsDropUnseen(train, valid, data) ==
    LET xs == [i \in 1..Len(data) |-> EncodeRow(train, valid, data[i])]
    IN SelectIdx(xs, {i \in 1..Len(xs) : xs[i].date # 0}, 1)

\* test_dl.xs: one encoded row per row of data, in order.
TestDlXs(train, valid, data) ==
    [i \in 1..Len(data) |-> EncodeRow(train, valid, data[i])]

\* data/train.csv after preprocess: read_csv only reads it, and dropna
\* returns a new table.
StoredAfterPreprocess(stored) == stored

\* preprocess(data): xs from a copy of data, and data itself untouched.
\* valid is the validation part RandomSplitter drew in this call.
preprocess(stored, valid, data) ==
    [xs |-> TestDlXs(DropNa(stored), valid, data), data |-> data]

(***************************************************************************)
(* service.py: the model and the two endpoints                             *)
(***************************************************************************)
PredictRow(m, x) ==
    m.base + m.w.date * x.date + m.w.country * x.country
           + m.w.store * x.store + m.w.product * x.product

\* self.model.predict(data): one prediction per row.
ModelPredict(m, xs) == [i \in 1..Len(xs) |-> PredictRow(m, xs[i])]

\* Mutant of ModelAfterPredict: the regressor is refitted to the request.
ModelRefit(m, xs) == [m EXCEPT !.base = m.base + Len(xs) + 1]

\* self.model after self.model.predict(xs): predicting does not fit.
ModelAfterPredict(m, xs) == m

\* Mutant of DatesOf: the dates are read back from the categorified table.
DatesOfProcessed(p) ==
    [i \in 1..Len(p.data) |->
        IF p.xs[i].date = 0 THEN "#na#" ELSE p.data[i].date]

\* original_data['date'].tolist()
DatesOf(p) == [i \in 1..Len(p.data) |-> p.data[i].date]

ErrorResponse == [status |-> 500, num_sold |-> <<>>, date |-> <<>>]

\* The dictionary both endpoints build from preprocess's result.
ResultOf(m, p) ==
    [status |-> 200, num_sold |-> ModelPredict(m, p.xs), date |-> DatesOf(p)]

\* Mutant of predict: a one-row table is taken for an empty one.
predictOffByOne(m, stored, valid, data) ==
    IF Len(data) <= 1 THEN [status |-> 500, num_sold |-> <<>>, date |-> <<>>]
    ELSE [status |-> 200,
          num_sold |-> ModelPredict(m, preprocess(stored, valid, data).xs),
          date |-> DatesOf(preprocess(stored, valid, data))]

\* predict(data): a table without rows has no columns, so no 'date'.
predict(m, stored, valid, data) ==
    IF Len(data) = 0 THEN ErrorResponse
    ELSE ResultOf(m, preprocess(stored, valid, data))

\* Mutant of ReadCsv: a file without data rows is refused.
ReadCsvNeedsRows(file) ==
    IF file.header /\ Len(file.rows) > 0 THEN [ok |-> TRUE, rows |-> file.rows]
    ELSE [ok |-> FALSE, rows |-> <<>>]

\* pd.read_csv(csv): the rows under the header row; EmptyDataError for an
\* empty file.
ReadCsv(file) ==
    IF file.header THEN [ok |-> TRUE, rows |-> file.rows]
    ELSE [ok |-> FALSE, rows |-> <<>>]

predict_csv(m, stored, valid, file) ==
    IF ~ReadCsv(file).ok THEN ErrorResponse
    ELSE ResultOf(m, preprocess(stored, valid, ReadCsv(file).rows))

ValidSplits(stored) == Splits(Len(DropNa(stored)))

(***************************************************************************)
(* The HTTP exchange as a client sees it                                   *)
(***************************************************************************)
\* A cell of a prediction column: a number, a null (None/NaN), a string.
Num(v) == [kind |-> "num", v |-> v]
NullCell == [kind |-> "null", v |-> 0]
StrCell(k) == [kind |-> "str", v |-> k]

\* Values a JSON list from an endpoint may hold.
ListCells == {Num(7), StrCell(0)}

NoBody == [kind |-> "none", keys |-> <<>>, items |-> <<>>, dates |-> <<>>]
\* A body that is not JSON (an HTML error page, plain text).
TextBody == [kind |-> "text", keys |-> <<>>, items |-> <<>>, dates |-> <<>>]
\* A JSON list.
ListBody(items) == [kind |-> "list", keys |-> <<>>, items |-> items, dates |-> <<>>]
\* The JSON object the serving framework sends with an error status.
ErrorJsonBody == [kind |-> "object", keys |-> <<"error">>, items |-> <<>>, dates |-> <<>>]
\* The JSON object service.py returns: {"num_sold": [...], "date": [...]}.
ResultBody(resp) ==
    [kind |-> "object", keys |-> <<"num_sold", "date">>,
     items |-> [i \in 1..Len(resp.num_sold) |-> Num(resp.num_sold[i])],
     dates |-> resp.date]

\* What the Predictor Service sends for one of its answers.
ServiceHttp(resp) ==
    IF resp.status = 200
    THEN [transport |-> "ok", status |-> 200, body |-> ResultBody(resp)]
    ELSE [transport |-> "ok", status |-> resp.status, body |-> ErrorJsonBody]

Statuses == {200, 201, 500}

\* What any other endpoint, or a failing one, may send.
ForeignHttp ==
    { [transport |-> "ok", status |-> st, body |-> b] :
        st \in Statuses,
        b \in {TextBody} \cup {ListBody(l) : l \in SeqsUpTo(ListCells, MaxRows)} }
    \cup { [transport |-> "ok", status |-> st, body |-> ErrorJsonBody] :
             st \in Statuses \ {200, 201} }

\* requests.post raising ConnectionError or Timeout.
TransportFailures ==
    { [transport |-> t, status |-> 0, body |-> NoBody] : t \in {"refused", "timeout"} }

\* Installed library versions the clients' behaviour depends on.
\* pandas: "v1" length-checks a dict assigned to a column and stores its
\* keys, "v2" aligns it as a Series.  requests: "new" raises its own
\* JSONDecodeError (a RequestException), "old" the json module's ValueError.
\* simplejson: whether it is installed (requests then raises its decode error).
Envs == [pandas : {"v1", "v2"}, requests : {"old", "new"}, simplejson : BOOLEAN]

\* response.json() succeeds on a JSON body only.
IsJson(body) == body.kind \in {"list", "object"}

\* Mutant of RaisesForStatus: no status raises.
RaisesForNoStatus(status) == FALSE

\* raise_for_status(): raises HTTPError for 4xx and 5xx.
RaisesForStatus(status) == status >= 400 /\ status < 600

\* The number of entries pandas sees in a value assigned to a column.
ValueLen(body) == IF body.kind = "list" THEN Len(body.items) ELSE Len(body.keys)

\* df[col] = predictions, for a table of n rows.  A table without rows
\* takes its index from a non-empty value (_ensure_valid_index) and grows
\* to that many rows of missing values; otherwise a list must match the
\* row count, and a dict is length-checked ("v1") or aligned ("v2").
SetColumn(n, body, env) ==
    IF n = 0 /\ ValueLen(body) > 0
    THEN [ok |-> TRUE, grown |-> TRUE,
          cells |-> IF body.kind = "list" THEN body.items
                    ELSE [i \in 1..Len(body.keys) |-> StrCell(i)]]
    ELSE IF body.kind = "list"
    THEN IF Len(body.items) = n
         THEN [ok |-> TRUE, grown |-> FALSE, cells |-> body.items]
         ELSE [ok |-> FALSE, grown |-> FALSE, cells |-> <<>>]
    ELSE IF env.pandas = "v2"
         THEN [ok |-> TRUE, grown |-> FALSE, cells |-> [i \in 1..n |-> NullCell]]
         ELSE IF Len(body.keys) = n
              THEN [ok |-> TRUE, grown |-> FALSE, cells |-> [i \in 1..n |-> StrCell(i)]]
              ELSE [ok |-> FALSE, grown |-> FALSE, cells |-> <<>>]

\* The rows of a table with a prediction column attached.
WithColumn(rows, cells) ==
    [i \in 1..Len(rows) |->
        [date |-> rows[i].date, country |-> rows[i].country,
         store |-> rows[i].store, product |-> rows[i].product,
         predicted |-> cells[i]]]

\* The table after df[col] = predictions: the rows with the column, or
\* the rows of missing values the empty table grew to.
AttachColumn(rows, col) ==
    IF col.grown
    THEN [i \in 1..Len(col.cells) |->
            [date |-> "NaT", country |-> "nan", store |-> "nan",
             product |-> "nan", predicted |-> col.cells[i]]]
    ELSE WithColumn(rows, col.cells)

NoFile == [header |-> FALSE, rows |-> <<>>]
NoHttp == [transport |-> "none", status |-> 0, body |-> NoBody]
NoSelection ==
    [period |-> "All Time", country |-> "All", store |-> "All", product |-> "All"]

\* The outcome of one client operation.
\*   loadRet        what the request function returned: "plot", "message",
\*                  "table", "empty" (pd.DataFrame()), "raised" (the
\*                  exception left the function)
\*   ret            how the whole operation ended: as loadRet, or "dashboard"
\*                  (rendered), "stopped" (create_dashboard returned early)
\*   message        the kind of message returned or shown
\*   showsResponse  the status code and the body text are put on the page
\*   parsed         response.json() was called on the body
\*   table          the rows plotted or returned, with their prediction cells
\*   sel, filtered  the sidebar selection and filtered_df
\*   shown          the parts of the page rendered
\*   detailed       the rows of the detailed data view
\*   handleOpen     the handle opened for the POST is still open
\*   tmpExists      the temporary CSV is still on disk
Outcome(client, upload, http, posts, ret, message, showsResponse, parsed, table) ==
    [client |-> client, upload |-> upload, http |-> http, posts |-> posts,
     loadRet |-> ret, ret |-> ret, message |-> message,
     shownStatus |-> IF showsResponse THEN http.status ELSE 0,
     shownBody |-> IF showsResponse THEN http.body ELSE NoBody,
     parsed |-> parsed, table |-> table,
     sel |-> NoSelection, filtered |-> <<>>, shown |-> {}, detailed |-> <<>>,
     handleOpen |-> FALSE, tmpExists |-> FALSE]

(***************************************************************************)
(* gradio_ui/app.py                                                        *)
(***************************************************************************)
\* create_sales_plot(data, predictions): the plotted table, or the
\* exception of the column assignment.
create_sales_plot(rows, body, env) ==
    LET col == SetColumn(Len(rows), body, env)
    IN [ok |-> col.ok,
        table |-> IF col.ok THEN AttachColumn(rows, col) ELSE <<>>]

\* predict_single_record(date, country, store, product); only a
\* RequestException is caught.
predict_single_record(rec, http, env) ==
    LET up == [header |-> TRUE, rows |-> <<rec>>]
        Out(ret, message, shows, parsed, table) ==
            Outcome("gradio_single", up, http, 1, ret, message, shows, parsed, table)
    IN IF http.transport # "ok"
       THEN Out("message", "connect_error", FALSE, FALSE, <<>>)
       ELSE IF http.status = 200
       THEN IF ~IsJson(http.body)
            THEN IF env.requests = "new"
                 THEN Out("message", "connect_error", FALSE, TRUE, <<>>)
                 ELSE Out("raised", "", FALSE, TRUE, <<>>)
            ELSE IF create_sales_plot(<<rec>>, http.body, env).ok
                 THEN Out("plot", "", FALSE, TRUE,
                          create_sales_plot(<<rec>>, http.body, env).table)
                 ELSE Out("raised", "", FALSE, TRUE, <<>>)
       ELSE Out("message", "status_body", TRUE, FALSE, <<>>)

\* clean_data(df): column names, string cells and the date format are
\* normalised; a clean table of valid records is left as it is.
clean_data(rows) == rows

\* predict_csv_file(file_obj) with a file; every Exception is caught.  The
\* temporary file is unlinked only after the POST returned.
predict_csv_file(file, http, env) ==
    LET rows == clean_data(ReadCsv(file).rows)
        Out(posts, ret, message, shows, parsed, table) ==
            Outcome("gradio_csv", file, http, posts, ret, message, shows, parsed, table)
    IN IF ~ReadCsv(file).ok
       THEN Outcome("gradio_csv", file, NoHttp, 0, "message", "processing_error",
                    FALSE, FALSE, <<>>)
       ELSE IF http.transport # "ok"
       THEN [Out(1, "message", "processing_error", FALSE, FALSE, <<>>)
                EXCEPT !.tmpExists = TRUE, !.handleOpen = TRUE]
       ELSE [(IF http.status = 200
              THEN IF ~IsJson(http.body)
                   THEN Out(1, "message", "processing_error", FALSE, TRUE, <<>>)
                   ELSE IF create_sales_plot(rows, http.body, env).ok
                        THEN Out(1, "plot", "", FALSE, TRUE,
                                 create_sales_plot(rows, http.body, env).table)
                        ELSE Out(1, "message", "processing_error", FALSE, TRUE, <<>>)
              ELSE Out(1, "message", "status_body", TRUE, FALSE, <<>>))
                EXCEPT !.handleOpen = TRUE]

\* predict_csv_file(None)
predict_csv_file_none ==
    Outcome("gradio_csv", NoFile, NoHttp, 0, "message", "please_upload",
            FALSE, FALSE, <<>>)

(***************************************************************************)
(* streamlit_ui/dashboard.py and dashboard_b.py: load_and_predict_data     *)
(***************************************************************************)
\* dashboard.py: no status check, no exception handler, the handle opened
\* for the POST is never closed.  posted is the file as opened for the
\* POST, reread the file as pd.read_csv finds it afterwards.
load_and_predict_data(posted, reread, http, env) ==
    LET Out(ret, parsed, table) ==
            [Outcome("streamlit", posted, http, 1, ret, "", FALSE, parsed, table)
                EXCEPT !.handleOpen = TRUE]
    IN IF http.transport # "ok" THEN Out("raised", FALSE, <<>>)
       ELSE IF ~IsJson(http.body) THEN Out("raised", TRUE, <<>>)
       ELSE IF ~ReadCsv(reread).ok THEN Out("raised", TRUE, <<>>)
       ELSE IF ~SetColumn(Len(ReadCsv(reread).rows), http.body, env).ok
       THEN Out("raised", TRUE, <<>>)
       ELSE Out("table", TRUE,
                AttachColumn(ReadCsv(reread).rows,
                             SetColumn(Len(ReadCsv(reread).rows), http.body, env)))

\* pd.to_numeric(column, errors='coerce')
ToNumeric(cells) ==
    [i \in 1..Len(cells) |-> IF cells[i].kind = "num" THEN cells[i] ELSE NullCell]

\* The handler that catches response.json()'s exception in dashboard_b.py.
JsonErrorMessage(env) ==
    IF ~env.simplejson THEN "json_error"
    ELSE IF env.requests = "new" THEN "network_error" ELSE "unexpected_error"

\* Mutant of JsonDecodeFallback: the decode error is raised again.
JsonDecodeReraise(posted, http, env) ==
    Outcome("streamlit_b", posted, http, 1, "raised", "", TRUE, TRUE, <<>>)

\* dashboard_b.py, the handler of a body that is not JSON: messages, and an
\* empty table is returned.
JsonDecodeFallback(posted, http, env) ==
    Outcome("streamlit_b", posted, http, 1, "empty", JsonErrorMessage(env),
            TRUE, TRUE, <<>>)

\* Mutant of MismatchColumn: the predictions received are attached as far
\* as they go.
MismatchColumnPadded(n, items) ==
    [i \in 1..n |-> IF i <= Len(items) THEN items[i] ELSE NullCell]

\* dashboard_b.py, row-count mismatch: test_df['predicted_sales'] = None.
MismatchColumn(n, items) == [i \in 1..n |-> NullCell]

\* dashboard_b.py, the try statement with its except clauses: every
\* exception ends in an empty table.  The handle opened before the try is
\* open wherever the statement is left.
TryPostAndLoad(posted, reread, http, env) ==
    LET Out(ret, message, parsed, table) ==
            Outcome("streamlit_b", posted, http, 1, ret, message,
                    http.transport = "ok", parsed, table)
        n == Len(ReadCsv(reread).rows)
        left ==
            IF http.transport # "ok" THEN Out("empty", "network_error", FALSE, <<>>)
            ELSE IF RaisesForStatus(http.status)
            THEN Out("empty", "network_error", FALSE, <<>>)
            ELSE IF ~IsJson(http.body) THEN JsonDecodeFallback(posted, http, env)
            ELSE IF http.body.kind # "list" THEN Out("empty", "not_a_list", TRUE, <<>>)
            ELSE IF ~ReadCsv(reread).ok
            THEN Out("empty", "unexpected_error", TRUE, <<>>)
            ELSE IF Len(http.body.items) # n
            THEN Out("table", "mismatch", TRUE,
                     WithColumn(ReadCsv(reread).rows,
                                MismatchColumn(n, http.body.items)))
            ELSE Out("table", "success", TRUE,
                     WithColumn(ReadCsv(reread).rows, ToNumeric(http.body.items)))
    IN [left EXCEPT !.handleOpen = TRUE]

\* Mutant of FinallyClose: the handle is closed at the end of the try body
\* only, where the predictions have been attached.
CloseAfterSuccess(out) ==
    IF out.message = "success" THEN [out EXCEPT !.handleOpen = FALSE] ELSE out

\* dashboard_b.py, the finally clause: files['csv'].close().
FinallyClose(out) == [out EXCEPT !.handleOpen = FALSE]

\* dashboard_b.py: load_and_predict_data(csv_path).
load_and_predict_data_b(posted, reread, http, env) ==
    FinallyClose(TryPostAndLoad(posted, reread, http, env))

(***************************************************************************)
(* streamlit_ui/dashboard.py and dashboard_b.py: create_dashboard          *)
(***************************************************************************)
\* Days from 2010-01-01 to the date (pd.to_datetime).
DayNumber(d) ==
    CASE d = "2010-01-01" -> 0
      [] d = "2010-01-02" -> 1
      [] d = "2017-01-01" -> 2557

Periods == {"All Time", "Last Month", "Last 3 Months", "Last Year"}

\* time_periods: the days of a period, 0 standing for None.
PeriodDays(p) ==
    CASE p = "All Time" -> 0
      [] p = "Last Month" -> 30
      [] p = "Last 3 Months" -> 90
      [] p = "Last Year" -> 365

\* The choices the sidebar offers for a loaded table.
Selections(table, timeFilter) ==
    [period : IF timeFilter THEN Periods ELSE {"All Time"},
     country : {"All"} \cup {table[i].country : i \in 1..Len(table)},
     store : {"All"} \cup {table[i].store : i \in 1..Len(table)},
     product : {"All"} \cup {table[i].product : i \in 1..Len(table)}]

MaxDay(table) ==
    CHOOSE d \in {DayNumber(table[i].date) : i \in 1..Len(table)} :
        \A i \in 1..Len(table) : DayNumber(table[i].date) <= d

\* Mutant of KeepEqual: only the first row with the value is kept.
KeepEqualFirst(table, col, value) ==
    SelectIdx(table, {i \in 1..Len(table) :
                         /\ table[i][col] = value
                         /\ \A j \in 1..(i - 1) : table[j][col] # value}, 1)

\* df[df[col] == value]
KeepEqual(table, col, value) ==
    SelectIdx(table, {i \in 1..Len(table) : table[i][col] = value}, 1)

\* df[df['date'] >= cutoff_date], the cutoff as a day number
KeepSince(table, cutoff) ==
    SelectIdx(table, {i \in 1..Len(table) : DayNumber(table[i].date) >= cutoff}, 1)

\* filtered_df: the time filter, then country, store and product.
ApplyFilters(table, sel) ==
    LET byTime == IF PeriodDays(sel.period) # 0 /\ Len(table) > 0
                  THEN KeepSince(table, MaxDay(table) - PeriodDays(sel.period))
                  ELSE table
        byCountry == IF sel.country # "All"
                     THEN KeepEqual(byTime, "country", sel.country) ELSE byTime
        byStore == IF sel.store # "All"
                   THEN KeepEqual(byCountry, "store", sel.store) ELSE byCountry
    IN IF sel.product # "All"
       THEN KeepEqual(byStore, "product", sel.product) ELSE byStore

\* filtered_df.sort_values('date'): rows of one date keep their order (the
\* insertion sort numpy uses for tables this small).
RECURSIVE SortByDate(_)
SortByDate(table) ==
    IF Len(table) = 0 THEN <<>>
    ELSE LET rest == SortByDate(SubSeq(table, 1, Len(table) - 1))
             last == table[Len(table)]
             k == Cardinality({i \in 1..Len(rest) :
                                  DayNumber(rest[i].date) <= DayNumber(last.date)})
         IN SubSeq(rest, 1, k) \o <<last>> \o SubSeq(rest, k + 1, Len(rest))

\* The table is one of missing values (see SetColumn).
IsGrown(table) == \E i \in 1..Len(table) : table[i].date = "NaT"

HasStrings(table) == \E i \in 1..Len(table) : table[i].predicted.kind = "str"
AllNull(table) == \A i \in 1..Len(table) : table[i].predicted.kind = "null"

\* dashboard.py, create_dashboard from the return of load_and_predict_data
\* on: its exception is not caught; formatting a total of strings, and the
\* top store of an empty selection (or of rows without a store), raise.
DashboardOf(load, sel) ==
    LET filtered == ApplyFilters(load.table, sel)
    IN IF load.ret = "raised" THEN load
       ELSE IF IsGrown(load.table)
       THEN [load EXCEPT !.ret = "raised", !.sel = sel,
                         !.shown = IF HasStrings(load.table) THEN {"filters"}
                                   ELSE {"filters", "kpi"}]
       ELSE IF HasStrings(filtered)
       THEN [load EXCEPT !.ret = "raised", !.sel = sel, !.filtered = filtered,
                         !.shown = {"filters"}]
       ELSE IF Len(filtered) = 0
       THEN [load EXCEPT !.ret = "raised", !.sel = sel, !.filtered = filtered,
                         !.shown = {"filters", "kpi"}]
       ELSE [load EXCEPT !.ret = "dashboard", !.sel = sel, !.filtered = filtered,
                         !.shown = {"filters", "kpi", "chart", "table"},
                         !.detailed = SortByDate(filtered)]

\* dashboard.py, create_dashboard with an uploaded file, run undisturbed:
\* temp_test.csv holds the upload when it is posted and when it is re-read.
create_dashboard(upload, http, sel, env) ==
    DashboardOf(load_and_predict_data(upload, upload, http, env), sel)

\* Mutant of DfEmpty: no table counts as empty.
DfEmptyNever(table) == FALSE

\* df.empty: the table has no rows (pd.DataFrame(), or columns only).
DfEmpty(table) == Len(table) = 0

\* dashboard_b.py, create_dashboard from the return of load_and_predict_data
\* on; tmp is temp_test.csv as the debugging view reads it.  Every table
\* that is returned with rows has the predicted_sales column.
DashboardOfB(load, sel, tmp) ==
    LET filtered == ApplyFilters(load.table, sel)
    IN IF load.ret = "raised" THEN load
       ELSE IF DfEmpty(load.table)
       THEN [load EXCEPT !.ret = "stopped",
                         !.shown = {"warning"} \cup
                                   (IF ReadCsv(tmp).ok THEN {"debug_table"}
                                    ELSE {"error"})]
       ELSE IF DfEmpty(filtered)
       THEN [load EXCEPT !.ret = "stopped", !.sel = sel, !.filtered = filtered,
                         !.shown = {"filters", "warning"}]
       ELSE [load EXCEPT !.ret = "dashboard", !.sel = sel, !.filtered = filtered,
                         !.shown = {"filters", "kpi", "table"} \cup
                                   (IF load.message = "success" /\ ~AllNull(filtered)
                                    THEN {"chart"} ELSE {"warning"}),
                         !.detailed = SortByDate(filtered)]

\* dashboard_b.py, create_dashboard with an uploaded file, run undisturbed.
create_dashboard_b(upload, http, sel, env) ==
    DashboardOfB(load_and_predict_data_b(upload, upload, http, env), sel, upload)

\* The time filter of dashboard_b.py needs the converted date column, which
\* the row-count mismatch path returns unconverted.
TimeFilterB(load) == load.message = "success"

(***************************************************************************)
(* State machine of the service                                            *)
(***************************************************************************)
NoRequest == [op |-> "none", data |-> <<>>, header |-> TRUE]
NoResponse == [status |-> 0, num_sold |-> <<>>, date |-> <<>>]
Idle == [client |-> "none"]

\* The Streamlit sessions open at the same time.
Sessions == {1, 2}

\* A session whose script is not running.
SessionIdle ==
    [pc |-> "idle", app |-> "none", upload |-> NoFile, posted |-> NoFile,
     http |-> NoHttp, page |-> Idle]

\* A handler with no request: its locals are gone.
WorkerIdle ==
    [stage |-> "idle", op |-> "none", data |-> <<>>, header |-> TRUE, xs |-> <<>>]

Init ==
    /\ model \in Models
    /\ trainData \in TrainTables
    /\ request = NoRequest
    /\ response = NoResponse
    /\ ui = Idle
    /\ workers = [w \in Workers |-> WorkerIdle]
    /\ tempFile = NoFile
    /\ sessions = [s \in Sessions |-> SessionIdle]

\* The answers predict may give: one per split RandomSplitter may draw.
PredictAnswers(data) ==
    {predict(model, trainData, valid, data) : valid \in ValidSplits(trainData)}

PredictCsvAnswers(file) ==
    {predict_csv(model, trainData, valid, file) : valid \in ValidSplits(trainData)}

Predict ==
    \E data \in Tables :
        /\ request' = [op |-> "predict", data |-> data, header |-> TRUE]
        /\ response' \in PredictAnswers(data)
        /\ model' = ModelAfterPredict(model, data)
        /\ trainData' = StoredAfterPreprocess(trainData)
        /\ UNCHANGED <<ui, workers, tempFile, sessions>>

PredictCsv ==
    \E file \in CsvFiles :
        /\ request' = [op |-> "predict_csv", data |-> file.rows,
                       header |-> file.header]
        /\ response' \in PredictCsvAnswers(file)
        /\ model' = ModelAfterPredict(model, file.rows)
        /\ trainData' = StoredAfterPreprocess(trainData)
        /\ UNCHANGED <<ui, workers, tempFile, sessions>>

Next == Predict \/ PredictCsv

Spec == Init /\ [][Next]_vars

(***************************************************************************)
(* State machine of the service under concurrent requests                  *)
(***************************************************************************)
\* Mutant of AfterRequest: the fitted encoding's output is kept for the
\* next request.
KeepEncoding(worker) == [worker EXCEPT !.stage = "idle"]

\* The locals of predict, predict_csv and preprocess when the call returns.
AfterRequest(worker) == WorkerIdle

\* The requests two handlers may be given at the same time.
ConcRequests ==
    [op : {"predict", "predict_csv"}, header : BOOLEAN,
     data : SeqsUpTo(SalesRecords, ConcRows)]

\* The request fails before the model is reached (see predict, predict_csv).
FailsEarly(req) ==
    IF req.op = "predict" THEN Len(req.data) = 0
    ELSE ~ReadCsv([header |-> req.header, rows |-> req.data]).ok

\* A handler takes a request, reads the CSV and runs preprocess: the
\* training data is read and the encoding fitted, on a split drawn now.
StartRequest(w) ==
    /\ workers[w].stage = "idle"
    /\ \E req \in ConcRequests :
         /\ req.header \/ (req.op = "predict_csv" /\ Len(req.data) = 0)
         /\ IF FailsEarly(req)
            THEN /\ request' = req
                 /\ response' = ErrorResponse
                 /\ workers' = [workers EXCEPT ![w] = AfterRequest(workers[w])]
                 /\ UNCHANGED trainData
            ELSE /\ \E valid \in ValidSplits(trainData) :
                      workers' = [workers EXCEPT ![w] =
                          [stage |-> "preprocessed", op |-> req.op,
                           data |-> preprocess(trainData, valid, req.data).data,
                           header |-> req.header,
                           xs |-> preprocess(trainData, valid, req.data).xs]]
                 /\ trainData' = StoredAfterPreprocess(trainData)
                 /\ UNCHANGED <<request, response>>
    /\ UNCHANGED <<model, ui, tempFile, sessions>>

\* The handler invokes the model on its own encoded rows and returns.
FinishRequest(w) ==
    /\ workers[w].stage = "preprocessed"
    /\ request' = [op |-> workers[w].op, data |-> workers[w].data,
                   header |-> workers[w].header]
    /\ response' = ResultOf(model, [xs |-> workers[w].xs, data |-> workers[w].data])
    /\ model' = ModelAfterPredict(model, workers[w].xs)
    /\ workers' = [workers EXCEPT ![w] = AfterRequest(workers[w])]
    /\ UNCHANGED <<trainData, ui, tempFile, sessions>>

ConcNext == \E w \in Workers : StartRequest(w) \/ FinishRequest(w)

ConcSpec == Init /\ [][ConcNext]_vars

(***************************************************************************)
(* State machine of the dashboard clients                                  *)
(***************************************************************************)
\* What a POST of data to /predict may come back with.
HttpForPredict(data) ==
    {ServiceHttp(r) : r \in PredictAnswers(data)} \cup ForeignHttp \cup TransportFailures

\* What a POST of a CSV file may come back with.
HttpForCsv(file) ==
    {ServiceHttp(r) : r \in PredictCsvAnswers(file)} \cup ForeignHttp
        \cup TransportFailures

\* The Predict button of the Gradio form.
GradioSingle ==
    /\ ui = Idle
    /\ \E rec \in SalesRecords, env \in Envs :
         \E http \in HttpForPredict(<<rec>>) :
            ui' = predict_single_record(rec, http, env)
    /\ UNCHANGED <<model, trainData, request, response, workers, tempFile, sessions>>

\* A change of the Gradio file input: a file, or none.
GradioCsv ==
    /\ ui = Idle
    /\ \/ ui' = predict_csv_file_none
       \/ \E file \in CsvFiles, env \in Envs :
            \E http \in HttpForCsv([header |-> TRUE, rows |-> clean_data(file.rows)]) :
               ui' = predict_csv_file(file, http, env)
    /\ UNCHANGED <<model, trainData, request, response, workers, tempFile, sessions>>

\* A run of dashboard.py with an uploaded file.
Streamlit ==
    /\ ui = Idle
    /\ \E file \in CsvFiles, env \in Envs :
         \E http \in HttpForCsv(file) :
            \E sel \in Selections(load_and_predict_data(file, file, http, env).table, TRUE) :
               /\ ui' = create_dashboard(file, http, sel, env)
               /\ tempFile' = file
    /\ UNCHANGED <<model, trainData, request, response, workers, sessions>>

\* A run of dashboard_b.py with an uploaded file.
StreamlitB ==
    /\ ui = Idle
    /\ \E file \in CsvFiles, env \in Envs :
         \E http \in HttpForCsv(file) :
            \E sel \in Selections(load_and_predict_data_b(file, file, http, env).table,
                                  TimeFilterB(load_and_predict_data_b(file, file, http, env))) :
               /\ ui' = create_dashboard_b(file, http, sel, env)
               /\ tempFile' = file
    /\ UNCHANGED <<model, trainData, request, response, workers, sessions>>

\* One user action on one of the four pages.
ClientNext == GradioSingle \/ GradioCsv \/ Streamlit \/ StreamlitB

ClientSpec == Init /\ [][ClientNext]_vars

(***************************************************************************)
(* State machine of two Streamlit sessions of one server                   *)
(***************************************************************************)
\* The CSV files the sessions upload: the header row and one record.
SessionUploads == {f \in CsvFiles : Len(f.rows) = 1}

\* What the API answers to a posted file: the Predictor Service's answers,
\* or the list of one prediction per row that the dashboards expect.
SessionHttp(file) ==
    {ServiceHttp(r) : r \in PredictCsvAnswers(file)}
        \cup {[transport |-> "ok", status |-> 200,
               body |-> ListBody([i \in 1..Len(file.rows) |-> Num(7)])]}

\* create_dashboard up to the call of load_and_predict_data: the upload is
\* written to 'temp_test.csv'.  The other session holds a different file.
SaveUpload(s) ==
    /\ sessions[s].pc = "idle"
    /\ \E app \in {"streamlit", "streamlit_b"}, file \in SessionUploads :
         /\ \A t \in Sessions \ {s} : sessions[t].upload # file
         /\ tempFile' = file
         /\ sessions' = [sessions EXCEPT ![s] =
                [SessionIdle EXCEPT !.pc = "saved", !.app = app, !.upload = file]]
    /\ UNCHANGED <<model, trainData, request, response, ui, workers>>

\* load_and_predict_data up to the response: 'temp_test.csv' is opened and
\* posted as it is now.
PostFile(s) ==
    /\ sessions[s].pc = "saved"
    /\ \E http \in SessionHttp(tempFile) :
         sessions' = [sessions EXCEPT ![s] =
             [@ EXCEPT !.pc = "posted", !.posted = tempFile, !.http = http]]
    /\ UNCHANGED <<model, trainData, request, response, ui, workers, tempFile>>

\* The rest of the run: the response is parsed, 'temp_test.csv' is read
\* again as it is now, and the page is rendered with the sidebar's defaults.
ReadBack(s) ==
    /\ sessions[s].pc = "posted"
    /\ \E env \in Envs :
         sessions' = [sessions EXCEPT ![s] =
             [@ EXCEPT !.pc = "done",
                       !.page =
                          IF sessions[s].app = "streamlit"
                          THEN DashboardOf(
                                   load_and_predict_data(sessions[s].posted, tempFile,
                                                         sessions[s].http, env),
                                   NoSelection)
                          ELSE DashboardOfB(
                                   load_and_predict_data_b(sessions[s].posted, tempFile,
                                                           sessions[s].http, env),
                                   NoSelection, tempFile)]]
    /\ UNCHANGED <<model, trainData, request, response, ui, workers, tempFile>>

\* The session's page is closed; 'temp_test.csv' stays.
EndRun(s) ==
    /\ sessions[s].pc = "done"
    /\ sessions' = [sessions EXCEPT ![s] = SessionIdle]
    /\ UNCHANGED <<model, trainData, request, response, ui, workers, tempFile>>

SessionNext ==
    \E s \in Sessions : SaveUpload(s) \/ PostFile(s) \/ ReadBack(s) \/ EndRun(s)

SessionSpec == Init /\ [][SessionNext]_vars

(***************************************************************************)
(* Claims about the service                                                *)
(***************************************************************************)
\* The request handled last is a predict_csv of a CSV with its header row.
CsvAnswered == request.op = "predict_csv" /\ request.header

\* Element i of num_sold is the model's prediction for input row i, under
\* one encoding (one split) for the whole batch.
PredictionsFollowRows ==
    \E valid \in ValidSplits(trainData) :
        \A i \in 1..Len(request.data) :
            response.num_sold[i] =
                PredictRow(model, EncodeRow(DropNa(trainData), valid, request.data[i]))

\* C1: every CSV of N valid SalesRecords submitted to predict_csv is answered
\* with exactly N num_sold values and N date values, element i of each
\* belonging to input row i.
C1_BatchLengthAndOrder ==
    CsvAnswered =>
        /\ response.status = 200
        /\ Len(response.num_sold) = Len(request.data)
        /\ Len(response.date) = Len(request.data)
        /\ \A i \in 1..Len(request.data) : response.date[i] = request.data[i].date
        /\ PredictionsFollowRows

\* A two-row batch with two different records has been answered.
C1_Witness ==
    /\ CsvAnswered
    /\ Len(request.data) = MaxRows
    /\ request.data[1] # request.data[2]
    /\ Len(response.num_sold) = MaxRows

\* C2: in every successful answer of predict or predict_csv the date sequence
\* equals the submitted records' dates, element by element.
C2_DatesRoundTrip ==
    (request.op \in {"predict", "predict_csv"} /\ response.status = 200) =>
        response.date = [i \in 1..Len(request.data) |-> request.data[i].date]

\* A date the training corpus never saw (encoded as #na#) has been returned.
C2_Witness ==
    /\ request.op \in {"predict", "predict_csv"}
    /\ response.status = 200
    /\ Len(request.data) = 2
    /\ request.data[1].date = "2017-01-01"
    /\ request.data[2].date = "2010-01-02"
    /\ response.date = <<"2017-01-01", "2010-01-02">>

\* C3: the same CSV submitted to predict_csv twice is answered with identical
\* num_sold sequences (stated for two consecutive submissions).
C3_SameCsvSameAnswer ==
    [][(/\ CsvAnswered
        /\ request' = request
        /\ response.status = 200
        /\ response'.status = 200) => response'.num_sold = response.num_sold]_vars

C5_SingleRecord ==
    (request.op = "predict" /\ Len(request.data) = 1) =>
        /\ response.status = 200
        /\ Len(response.num_sold) = 1
        /\ Len(response.date) = 1
        /\ response.date[1] = request.data[1].date

\* The spec's scenario record has been answered by predict.
C5_Witness ==
    /\ request.op = "predict"
    /\ request.data =
         <<Rec("2017-01-01", "Canada", "Discount Stickers", "Holographic Goose")>>
    /\ response.status = 200
    /\ response.date = <<"2017-01-01">>

(***************************************************************************)
(* Claims about the dashboard clients                                      *)
(***************************************************************************)
\* The operation run last got the Predictor Service's own PredictionResult,
\* with status 200, for the file it uploaded.
GotPredictionResult ==
    /\ ui.http.transport = "ok"
    /\ ui.http.status = 200
    /\ ui.http.body.kind = "object"
    /\ ui.http.body.keys = <<"num_sold", "date">>

\* The file uploaded is a CSV with its header row and at least one record.
ValidUpload == ui.upload.header /\ Len(ui.upload.rows) >= 1

\* C6: when the service answers a dashboard's predict_csv call with status 200
\* and a PredictionResult for an N-row upload, load_and_predict_data yields an
\* N-row table whose row i carries num_sold[i] as its predicted value.
C6_DashboardCarriesPredictions ==
    (ui.client \in {"streamlit", "streamlit_b"} /\ ValidUpload /\ GotPredictionResult) =>
        /\ ui.loadRet # "raised"
        /\ Len(ui.table) = Len(ui.upload.rows)
        /\ \A i \in 1..Len(ui.table) : ui.table[i].predicted = ui.http.body.items[i]

\* C7: in every client operation that calls the service, a response with a
\* status other than 200 is shown as status code plus body text, and its
\* body is never read as predictions nor rendered as a plot or table.
C7_Non200Surfaced ==
    (/\ ui.client # "none"
     /\ ValidUpload
     /\ ui.http.transport = "ok"
     /\ ui.http.status # 200) =>
        /\ ui.shownStatus = ui.http.status
        /\ ui.shownBody = ui.http.body
        /\ ~ui.parsed
        /\ ui.table = <<>>
        /\ ui.ret \notin {"plot", "table", "dashboard"}

\* C8: on a transport failure of the POST a client operation ends with an
\* error message (or an empty result), the exception does not leave it, and
\* no user action issues more than one POST.
C8_TransportFailureHandled ==
    /\ ui.client # "none" => ui.posts <= 1
    /\ (/\ ui.client # "none"
        /\ ValidUpload
        /\ ui.http.transport \in {"refused", "timeout"}) =>
          /\ ui.loadRet \in {"message", "empty"}
          /\ ui.ret # "raised"
          /\ ui.message # ""

\* The later dashboard got a successful status with a body that is not JSON.
BadJsonFromB ==
    /\ ui.client = "streamlit_b"
    /\ ui.http.transport = "ok"
    /\ ~RaisesForStatus(ui.http.status)
    /\ ui.http.body.kind = "text"

\* C9: on a successful status whose body is not valid JSON, the later
\* dashboard's load_and_predict_data returns an empty table without the
\* parse error leaving it, and create_dashboard stops before KPIs and charts.
C9_MalformedJsonFallsBack ==
    BadJsonFromB =>
        /\ ui.loadRet = "empty"
        /\ ui.table = <<>>
        /\ ui.ret = "stopped"
        /\ ui.shown \cap {"kpi", "chart", "table"} = {}

\* A non-JSON body with status 200 arrived for a two-row upload.
C9_Witness ==
    /\ BadJsonFromB
    /\ ui.http.status = 200
    /\ Len(ui.upload.rows) = 2
    /\ ui.ret = "stopped"

\* The later dashboard received a JSON list whose length differs from the
\* number of rows of the uploaded CSV.
RowCountMismatch ==
    /\ ui.client = "streamlit_b"
    /\ ui.http.transport = "ok"
    /\ ~RaisesForStatus(ui.http.status)
    /\ ui.http.body.kind = "list"
    /\ ui.upload.header
    /\ Len(ui.http.body.items) # Len(ui.upload.rows)

\* C10: on a row-count mismatch the later dashboard's load_and_predict_data
\* does not abort: it returns the input rows, same count and order, with
\* predicted_sales null in every row and no received value attached.
C10_MismatchGivesNullColumn ==
    RowCountMismatch =>
        /\ ui.loadRet = "table"
        /\ ui.ret # "raised"
        /\ Len(ui.table) = Len(ui.upload.rows)
        /\ \A i \in 1..Len(ui.table) :
              /\ Rec(ui.table[i].date, ui.table[i].country,
                     ui.table[i].store, ui.table[i].product) = ui.upload.rows[i]
              /\ ui.table[i].predicted = NullCell

\* One numeric prediction arrived for two different rows.
C10_Witness ==
    /\ RowCountMismatch
    /\ Len(ui.upload.rows) = 2
    /\ ui.upload.rows[1] # ui.upload.rows[2]
    /\ ui.http.body.items = <<Num(7)>>
    /\ Len(ui.table) = 2

\* A dashboard rendered its detailed data view.
TableDisplayed ==
    ui.client \in {"streamlit", "streamlit_b"} /\ "table" \in ui.shown

\* The row agrees with every selection of country, store and product that
\* is not 'All'.
Matches(row, sel) ==
    /\ sel.country = "All" \/ row.country = sel.country
    /\ sel.store = "All" \/ row.store = sel.store
    /\ sel.product = "All" \/ row.product = sel.product

\* The row is not older than the selected time period allows, counted back
\* from the latest date of the loaded table.
InPeriod(table, row, sel) ==
    \/ PeriodDays(sel.period) = 0
    \/ DayNumber(row.date) >= MaxDay(table) - PeriodDays(sel.period)

Occurrences(table, row) == Cardinality({i \in 1..Len(table) : table[i] = row})

RowsOf(table) == {table[i] : i \in 1..Len(table)}

\* C11 as stated: the rows displayed are exactly the rows of the loaded
\* table that agree with every non-'All' selection of country, store and
\* product, each as often as the loaded table holds it.
C11_FilterExact ==
    TableDisplayed =>
        \A row \in RowsOf(ui.table) \cup RowsOf(ui.detailed) :
            Occurrences(ui.detailed, row) =
                IF Matches(row, ui.sel) THEN Occurrences(ui.table, row) ELSE 0

\* C11, amended: the rows displayed are exactly the rows of the loaded table
\* that agree with every non-'All' selection of country, store and product
\* and lie within the selected time period; with 'All Time' selected they
\* are exactly the rows that agree with the selections.
C11_FilterExactInPeriod ==
    TableDisplayed =>
        \A row \in RowsOf(ui.table) \cup RowsOf(ui.detailed) :
            Occurrences(ui.detailed, row) =
                IF Matches(row, ui.sel) /\ InPeriod(ui.table, row, ui.sel)
                THEN Occurrences(ui.table, row) ELSE 0

\* Country = Canada was selected over a table of one Canada row and one
\* other row, and exactly the Canada row is displayed.
C11_Witness ==
    /\ TableDisplayed
    /\ ui.sel.country = "Canada"
    /\ Len(ui.table) = 2
    /\ ui.table[1].country = "Kenya"
    /\ ui.table[2].country = "Canada"
    /\ Len(ui.detailed) = 1
    /\ ui.detailed[1] = ui.table[2]

\* The table load_and_predict_data returned holds a prediction that is not
\* null.
HasPrediction == \E i \in 1..Len(ui.table) : ui.table[i].predicted.kind # "null"

\* The POST completed with a 2xx status and a JSON list of as many entries
\* as the uploaded CSV has rows.
ListForEveryRow ==
    /\ ui.http.transport = "ok"
    /\ ui.http.status >= 200 /\ ui.http.status < 300
    /\ ui.http.body.kind = "list"
    /\ ui.upload.header
    /\ Len(ui.http.body.items) = Len(ui.upload.rows)

\* The table returned is the uploaded rows, in order, each with a null
\* predicted_sales.
InputRowsWithNulls ==
    /\ ui.loadRet = "table"
    /\ Len(ui.table) = Len(ui.upload.rows)
    /\ \A i \in 1..Len(ui.table) :
          ui.table[i] = [date |-> ui.upload.rows[i].date,
                         country |-> ui.upload.rows[i].country,
                         store |-> ui.upload.rows[i].store,
                         product |-> ui.upload.rows[i].product,
                         predicted |-> NullCell]

TempFileCreated == ui.client = "gradio_csv" /\ ui.posts = 1

\* C16: whenever predict_csv_file created the temporary CSV, the file has
\* been deleted by the time the function returns, also when the POST raised
\* or returned a status other than 200.
C16_TempFileDeleted == (TempFileCreated /\ ValidUpload) => ~ui.tmpExists

\* C17: on every exit path of the later dashboard's load_and_predict_data
\* (success, error status, JSON decode failure, non-list response, row-count
\* mismatch, transport error, unexpected exception) the handle opened on the
\* uploaded CSV for the POST has been closed.
C17_HandleClosed == ui.client = "streamlit_b" => ~ui.handleOpen

\* The later dashboard's load_and_predict_data was left through the handler
\* of a transport error, for a two-row upload.
C17_Witness ==
    /\ ui.client = "streamlit_b"
    /\ ui.http.transport = "timeout"
    /\ Len(ui.upload.rows) = 2
    /\ ui.loadRet = "empty"
    /\ ~ui.handleOpen

\* The later dashboard has no row to show: load_and_predict_data returned an
\* empty table, or no row of the table agrees with the sidebar's selections.
NothingToShow ==
    /\ ui.client = "streamlit_b"
    /\ ui.loadRet # "raised"
    /\ \A i \in 1..Len(ui.table) :
          ~(Matches(ui.table[i], ui.sel) /\ InPeriod(ui.table, ui.table[i], ui.sel))

\* C18: when load_and_predict_data returned an empty table or the filters
\* leave no rows, the later dashboard's create_dashboard shows a message and
\* returns: no KPI card, chart or detailed table is rendered.
C18_StopsBeforeKpis ==
    NothingToShow =>
        /\ ui.ret = "stopped"
        /\ ui.shown \cap {"kpi", "chart", "table"} = {}
        /\ ui.shown \cap {"warning", "error"} # {}
        /\ ui.detailed = <<>>

\* The predictions arrived for a two-row upload and the country and product
\* selected occur in no common row.
C18_Witness ==
    /\ NothingToShow
    /\ Len(ui.table) = 2
    /\ ui.message = "success"
    /\ ui.sel.country # "All"
    /\ ui.sel.product # "All"
    /\ ui.ret = "stopped"

(***************************************************************************)
(* Claims about the service under concurrent requests                      *)
(***************************************************************************)
\* C12: the model loaded at construction and the stored training data are
\* only read: no step of any interleaving of predict and predict_csv
\* requests changes either, so both keep their start-up values.
C12_ModelAndTrainingDataReadOnly ==
    [][model' = model /\ trainData' = trainData]_vars

\* A predict and a predict_csv request are past preprocess at the same time,
\* after an earlier request has been answered.
C12_Witness ==
    /\ workers[1].stage = "preprocessed" /\ workers[1].op = "predict"
    /\ workers[2].stage = "preprocessed" /\ workers[2].op = "predict_csv"
    /\ response.status = 200
    /\ model \in Models
    /\ trainData \in TrainTables

\* C13: every request fits its encoding inside the request, from the stored
\* training data and a split drawn then, before the model is invoked on the
\* rows so encoded; when the request returns nothing of it is kept, and the
\* model and the training data are as before.
C13_NoCaching ==
    [][/\ model' = model
       /\ trainData' = trainData
       /\ \A w \in Workers :
            /\ workers'[w].stage = "idle" => workers'[w] = WorkerIdle
            /\ (workers[w].stage = "idle" /\ workers'[w].stage = "preprocessed") =>
                  \E valid \in ValidSplits(trainData) :
                      workers'[w].xs =
                          TestDlXs(DropNa(trainData), valid, workers'[w].data)
            /\ (workers[w].stage = "preprocessed" /\ workers'[w].stage = "idle") =>
                  response'.num_sold = ModelPredict(model, workers[w].xs)]_vars

\* One handler has answered and kept nothing, while two requests for the
\* same record were encoded differently by the splits drawn for them.
C13_Witness ==
    /\ response.status = 200
    /\ workers[1].stage = "preprocessed"
    /\ workers[2].stage = "preprocessed"
    /\ workers[1].data = workers[2].data
    /\ Len(workers[1].data) = 1
    /\ workers[1].xs # workers[2].xs

(***************************************************************************)
(* Claims about concurrent Streamlit sessions                              *)
(***************************************************************************)
\* The record of a table row, without its prediction.
RecordOf(row) == Rec(row.date, row.country, row.store, row.product)

\* C15: each session posts its own upload to the service, and every row of
\* the table it loads is a row of its own upload, however the save, POST and
\* re-read steps of two sessions interleave.
C15_SessionsIsolated ==
    \A s \in Sessions :
        /\ sessions[s].pc \in {"posted", "done"} =>
              sessions[s].posted = sessions[s].upload
        /\ sessions[s].pc = "done" =>
              \A i \in 1..Len(sessions[s].page.table) :
                  RecordOf(sessions[s].page.table[i]) \in RowsOf(sessions[s].upload.rows)

====
